---- MODULE Spec2Model ----
(***************************************************************************)
(* Model of the contig data-integration pipeline: src/src/parsers.py       *)
(* (header extractors, report loaders) and src/src/analysis.py             *)
(* (compile_data: aggregation, the two left merges, classification).       *)
(*                                                                         *)
(* Text is a sequence of one-character strings, so the regular expressions *)
(* of the parsers are computed character by character.  A table is a       *)
(* sequence of records.  A missing cell (pandas NaN) is NaNStr in a text   *)
(* column and NaN in a numeric column.  Decimal numbers (coverage) are     *)
(* held in thousandths.                                                    *)
(***************************************************************************)
EXTENDS Integers, Sequences, FiniteSets, TLC

VARIABLES
    paths,      \* the contents of the eight input files, by key of `paths`
    pc,         \* position in the pipeline
    df_mylo,    \* parse_myloasm_headers' return value
    df_meta,    \* parse_metamdbg_headers' return value
    df_main,    \* headers aggregate
    df_checkm,  \* quality aggregate
    df_gtdb,    \* taxonomy aggregate (or parse_gtdbtk's return value)
    df_merged   \* merged table; the return value once pc = "done"

vars == <<paths, pc, df_mylo, df_meta, df_main, df_checkm, df_gtdb, df_merged>>

-----------------------------------------------------------------------------
(* Missing values *)

NaNStr == <<"NaN">>

NaN == -1

-----------------------------------------------------------------------------
(* Character classes of the regular expressions (ASCII part) *)

UpperCase == <<"A","B","C","D","E","F","G","H","I","J","K","L","M",
               "N","O","P","Q","R","S","T","U","V","W","X","Y","Z">>

LowerCase == <<"a","b","c","d","e","f","g","h","i","j","k","l","m",
               "n","o","p","q","r","s","t","u","v","w","x","y","z">>

DigitChars == <<"0","1","2","3","4","5","6","7","8","9">>

Range(f) == {f[i] : i \in DOMAIN f}

\* \d
Digit == Range(DigitChars)

\* \w
Word == Range(UpperCase) \cup Range(LowerCase) \cup Digit \cup {"_"}

\* [\d\.]
DigitDot == Digit \cup {"."}

\* whitespace, the complement of \S and what str.strip() removes
Space == {" ", "\t", "\n", "\r"}

\* [=_:]
TagSep == {"=", "_", ":"}

-----------------------------------------------------------------------------
(* Text helpers *)

\* s[i..j], empty when j < i
Slice(s, i, j) ==
    IF j < i THEN << >> ELSE [k \in 1..(j - i + 1) |-> s[i + k - 1]]

\* the literal lit occurs in s at position i
LitAt(s, i, lit) ==
    /\ i >= 1
    /\ i + Len(lit) - 1 <= Len(s)
    /\ \A k \in 1..Len(lit) : s[i + k - 1] = lit[k]

RECURSIVE RunEnd(_, _, _)
\* end of the longest run of characters of class C that starts at i
\* (i - 1 when s[i] is not in C): a greedy C*
RunEnd(s, i, C) ==
    IF i <= Len(s) /\ s[i] \in C THEN RunEnd(s, i + 1, C) ELSE i - 1

RECURSIVE RunStart(_, _, _)
\* start of the longest run of characters of class C that ends at j
RunStart(s, j, C) ==
    IF j >= 1 /\ s[j] \in C THEN RunStart(s, j - 1, C) ELSE j + 1

\* str.strip(): without the leading and the trailing whitespace
strip(s) == Slice(s, RunEnd(s, 1, Space) + 1, RunStart(s, Len(s), Space) - 1)

\* str.startswith(">")
startswith(s, lit) == LitAt(s, 1, lit)

IndexOf(c, tup) == CHOOSE i \in DOMAIN tup : tup[i] = c

\* str.lower()
lower(s) ==
    [i \in 1..Len(s) |->
        IF s[i] \in Range(UpperCase) THEN LowerCase[IndexOf(s[i], UpperCase)]
        ELSE s[i]]

\* the substring sub occurs somewhere in s (str.contains of a literal)
contains(s, sub) == \E i \in 1..Len(s) : LitAt(s, i, sub)

DigitValue(c) == IndexOf(c, DigitChars) - 1

RECURSIVE ToInt(_)
\* value of a non-empty string of digits
ToInt(s) ==
    IF Len(s) = 0 THEN 0
    ELSE 10 * ToInt(Slice(s, 1, Len(s) - 1)) + DigitValue(s[Len(s)])

\* a string of [\d\.]+ that float() / pd.to_numeric can parse:
\* at most one point and at least one digit
IsDecimal(s) ==
    /\ Cardinality({i \in 1..Len(s) : s[i] = "."}) <= 1
    /\ \E i \in 1..Len(s) : s[i] \in Digit

\* value, in thousandths, of a parsable decimal string
ToDecimal(s) ==
    LET dots == {i \in 1..Len(s) : s[i] = "."}
        d    == IF dots = {} THEN Len(s) + 1 ELSE CHOOSE i \in dots : TRUE
        frac == Slice(s, d + 1, Len(s))
        f3   == Slice(frac \o <<"0","0","0">>, 1, 3)
    IN  1000 * ToInt(Slice(s, 1, d - 1)) + ToInt(f3)

-----------------------------------------------------------------------------
(* parse_myloasm_headers *)

Marker == <<">">>

Tag_len == <<"_","l","e","n","-">>

Tag_circular == <<"_","c","i","r","c","u","l","a","r","-">>

Tag_depth == <<"_","d","e","p","t","h","-">>

\* The pattern after the lazy contig_id group, tried with the group ending
\* at p: _len-(\d+)_circular-(\w+)_depth-([\d\.]+).  \d+ can only be the
\* whole run of digits (a digit is not "_"); \w+ is greedy but gives back
\* characters until "_depth-" and one [\d\.] follow.
WordEnds(s, p) ==
    LET a == p + 1 + Len(Tag_len)
        b == RunEnd(s, a, Digit)
        c == b + 1 + Len(Tag_circular)
    IN  IF /\ LitAt(s, p + 1, Tag_len)
           /\ b >= a
           /\ LitAt(s, b + 1, Tag_circular)
        THEN {e \in c..RunEnd(s, c, Word) :
                 /\ LitAt(s, e + 1, Tag_depth)
                 /\ e + 1 + Len(Tag_depth) <= Len(s)
                 /\ s[e + 1 + Len(Tag_depth)] \in DigitDot}
        ELSE {}

Max(S) == CHOOSE x \in S : \A y \in S : x >= y

Min(S) == CHOOSE x \in S : \A y \in S : x <= y

\* Series.str.extract(pattern) on one value: the four named groups, all
\* missing when the pattern does not match
ExtractMylo(s) ==
    LET ends == {p \in 2..Len(s) : WordEnds(s, p) # {}}
    IN  IF startswith(s, Marker) /\ ends # {}
        THEN LET p == Min(ends)
                 a == p + 1 + Len(Tag_len)
                 b == RunEnd(s, a, Digit)
                 c == b + 1 + Len(Tag_circular)
                 e == Max(WordEnds(s, p))
                 f == e + 1 + Len(Tag_depth)
             IN  [contig_id |-> Slice(s, 2, p),
                  length    |-> Slice(s, a, b),
                  circular  |-> Slice(s, c, e),
                  coverage  |-> Slice(s, f, RunEnd(s, f, DigitDot))]
        ELSE [contig_id |-> NaNStr, length |-> NaNStr,
              circular |-> NaNStr, coverage |-> NaNStr]

\* the lines kept by the comprehension `line.strip() for line in f if
\* line.startswith(">")`
SelectSeqHeader(f) == SelectSeq(f, LAMBDA line : startswith(line, Marker))

HeaderLines(f) ==
    LET kept == SelectSeqHeader(f)
    IN  [i \in 1..Len(kept) |-> strip(kept[i])]

\* pd.to_numeric(extracted["length"]): a missing value stays missing
ToNumericInt(s) == IF s = NaNStr THEN NaN ELSE ToInt(s)

\* pd.to_numeric(extracted["coverage"]) / astype(float)
ToNumericDecimal(s) == IF s = NaNStr THEN NaN ELSE ToDecimal(s)

\* pd.to_numeric raises ValueError on a string it cannot parse
Unparsable(s) == s # NaNStr /\ ~IsDecimal(s)

yes == <<"y","e","s">>

possible == <<"p","o","s","s","i","b","l","e">>

myloasm == <<"m","y","l","o","a","s","m">>

metaMDBG == <<"m","e","t","a","M","D","B","G">>

\* extracted["circular"].isin(["yes", "possible"])
IsCircularMylo(circular) == circular \in {yes, possible}

MyloRow(s) ==
    LET x == ExtractMylo(s)
    IN  [contig_id   |-> x.contig_id,
         assembler   |-> myloasm,
         length      |-> ToNumericInt(x.length),
         coverage    |-> ToNumericDecimal(x.coverage),
         is_circular |-> IsCircularMylo(x.circular)]

\* parse_myloasm_headers raises (pd.to_numeric, errors="raise")
MyloRaises(f) ==
    \E i \in 1..Len(HeaderLines(f)) :
        Unparsable(ExtractMylo(HeaderLines(f)[i]).coverage)

\* parse_myloasm_headers that drops the rows of lines without a match
parse_myloasm_headers_dropna(f) ==
    SelectSeq([i \in 1..Len(HeaderLines(f)) |-> MyloRow(HeaderLines(f)[i])],
              LAMBDA row : row.contig_id # NaNStr)

parse_myloasm_headers(f) ==
    [i \in 1..Len(HeaderLines(f)) |-> MyloRow(HeaderLines(f)[i])]

-----------------------------------------------------------------------------
(* parse_metamdbg_headers *)

Tag_length == <<"l","e","n","g","t","h">>

Tag_coverage == <<"c","o","v","e","r","a","g","e">>

Tag_circ == <<"c","i","r","c","u","l","a","r">>

\* Series.str.extract(r'(?:tag)[=_:](C+)') on one value: re.search takes the
\* leftmost position where the tag, a separator and one character of C
\* follow each other, and the group is the whole run of C from there
ExtractTagged(s, tag, C) ==
    LET hits == {i \in 1..Len(s) :
                    /\ LitAt(s, i, tag)
                    /\ i + Len(tag) + 1 <= Len(s)
                    /\ s[i + Len(tag)] \in TagSep
                    /\ s[i + Len(tag) + 1] \in C}
    IN  IF hits = {} THEN NaNStr
        ELSE LET g == Min(hits) + Len(tag) + 1
             IN  Slice(s, g, RunEnd(s, g, C))

\* Series.str.extract(r'^>(\S+)') on one value
ExtractMetaId(s) ==
    IF startswith(s, Marker) /\ Len(s) >= 2 /\ s[2] \notin Space
    THEN Slice(s, 2, RunEnd(s, 2, {s[k] : k \in 1..Len(s)} \ Space))
    ELSE NaNStr

\* IsCircularMeta without lower-casing
IsCircularMetaCaseSensitive(circular) == circular \in {yes}

\* circ_extracted[0].str.lower().isin(["yes"]); a missing value is not in
\* the list
IsCircularMeta(circular) == circular # NaNStr /\ lower(circular) \in {yes}

MetaRow(s) ==
    [contig_id   |-> ExtractMetaId(s),
     assembler   |-> metaMDBG,
     length      |-> ToNumericInt(ExtractTagged(s, Tag_length, Digit)),
     coverage    |-> ToNumericDecimal(ExtractTagged(s, Tag_coverage, DigitDot)),
     is_circular |-> IsCircularMeta(ExtractTagged(s, Tag_circ, Word))]

\* parse_metamdbg_headers raises (astype(float) on an unparsable string)
MetaRaises(f) ==
    \E i \in 1..Len(HeaderLines(f)) :
        Unparsable(ExtractTagged(HeaderLines(f)[i], Tag_coverage, DigitDot))

parse_metamdbg_headers(f) ==
    [i \in 1..Len(HeaderLines(f)) |-> MetaRow(HeaderLines(f)[i])]

-----------------------------------------------------------------------------
(* parse_checkm2 *)

\* rename Name -> contig_id and keep the three columns
parse_checkm2(f) ==
    [i \in 1..Len(f) |-> [contig_id     |-> f[i].Name,
                          Completeness  |-> f[i].Completeness,
                          Contamination |-> f[i].Contamination]]

-----------------------------------------------------------------------------
(* parse_gtdbtk *)

Tag_p == <<"p","_","_">>

Unclassified == <<"U","n","c","l","a","s","s","i","f","i","e","d">>

\* ExtractPhylum that only looks at the first "p__" of the string
ExtractPhylumFirstMarker(s) ==
    LET hits == {i \in 1..Len(s) : LitAt(s, i, Tag_p)}
    IN  IF hits = {} THEN NaNStr
        ELSE LET g == Min(hits) + Len(Tag_p)
             IN  IF g > Len(s) \/ s[g] = ";" THEN NaNStr
                 ELSE Slice(s, g, RunEnd(s, g, {s[k] : k \in 1..Len(s)} \ {";"}))

\* Series.str.extract(r"p__([^;]+)") on one value: leftmost "p__" followed
\* by a character other than ";", then everything up to the next ";"
ExtractPhylum(s) ==
    LET hits == {i \in 1..Len(s) :
                    /\ LitAt(s, i, Tag_p)
                    /\ i + Len(Tag_p) <= Len(s)
                    /\ s[i + Len(Tag_p)] # ";"}
    IN  IF hits = {} THEN NaNStr
        ELSE LET g == Min(hits) + Len(Tag_p)
             IN  Slice(s, g, RunEnd(s, g, {s[k] : k \in 1..Len(s)} \ {";"}))

\* KeepPhylum without the "Unclassified" filter
KeepPhylumAny(row) == row.Phylum # NaNStr

\* rows kept by dropna(subset=["Phylum"]) and
\* df[~df['Phylum'].str.contains('Unclassified')]
KeepPhylum(row) ==
    /\ row.Phylum # NaNStr
    /\ ~contains(row.Phylum, Unclassified)

parse_gtdbtk(file_bac, file_ar) ==
    LET df == file_bac \o file_ar
        ex == [i \in 1..Len(df) |->
                   [contig_id |-> df[i].user_genome,
                    Phylum    |-> ExtractPhylum(df[i].classification)]]
    IN  SelectSeq(ex, KeepPhylum)

-----------------------------------------------------------------------------
(* compile_data *)

\* the columns both header extractors return
HeaderColumns == {"contig_id", "assembler", "length", "coverage", "is_circular"}

\* pd.concat([a, b], ignore_index=True)
concat(a, b) == a \o b

\* the columns a left merge adds, for a left row without a match
MissingQuality == [Completeness |-> NaN, Contamination |-> NaN]

MissingTaxonomy == [Phylum |-> NaNStr]

\* Matches that deduplicates the right table: the first match only
MatchesFirst(right, key) ==
    LET m == SelectSeq(right, LAMBDA r : r.contig_id = key)
    IN  IF Len(m) = 0 THEN m ELSE << m[1] >>

\* the rows of the right table whose key equals key, in the right table's
\* order; pandas matches a missing key with a missing key
Matches(right, key) == SelectSeq(right, LAMBDA r : r.contig_id = key)

\* JoinRow as an inner join: a left row without a match is dropped
JoinRowInner(l, right, missing) ==
    LET m == Matches(right, l.contig_id)
    IN  [j \in 1..Len(m) |-> l @@ [c \in DOMAIN missing |-> m[j][c]]]

\* JoinRow that keeps the unmatched form of a left row next to its matches
JoinRowPlusUnmatched(l, right, missing) ==
    LET m == Matches(right, l.contig_id)
    IN  << l @@ missing >> \o
        [j \in 1..Len(m) |-> l @@ [c \in DOMAIN missing |-> m[j][c]]]

\* the output rows of one left row: one per match, or one with the right
\* columns missing
JoinRow(l, right, missing) ==
    LET m == Matches(right, l.contig_id)
    IN  IF Len(m) = 0 THEN << l @@ missing >>
        ELSE [j \in 1..Len(m) |->
                 l @@ [c \in DOMAIN missing |-> m[j][c]]]

RECURSIVE merge(_, _, _)
\* left.merge(right, on='contig_id', how='left')
merge(left, right, missing) ==
    IF Len(left) = 0 THEN << >>
    ELSE JoinRow(Head(left), right, missing) \o merge(Tail(left), right, missing)

\* Series.fillna(value) on one numeric cell
fillna(v, value) == IF v = NaN THEN value ELSE v

\* Series.fillna('Unknown') on one text cell
fillnaStr(v, value) == IF v = NaNStr THEN value ELSE v

Unknown == <<"U","n","k","n","o","w","n">>

\* QualityCategory with the two conditions in the other order
QualityCategoryMediumFirst(completeness, contamination) ==
    IF completeness > 50 /\ contamination < 10 THEN "Medium"
    ELSE IF completeness > 90 /\ contamination < 5 THEN "High"
    ELSE "Low"

\* np.select(conditions, choices, default='Low'): the first condition that
\* holds decides
QualityCategory(completeness, contamination) ==
    IF completeness > 90 /\ contamination < 5 THEN "High"
    ELSE IF completeness > 50 /\ contamination < 10 THEN "Medium"
    ELSE "Low"

LargeThreshold == 500000

\* IsLargeCircular with an inclusive threshold
IsLargeCircularInclusive(length, is_circular) ==
    /\ length # NaN
    /\ length >= LargeThreshold
    /\ is_circular = TRUE

\* (df_merged['length'] > 500_000) & (df_merged['is_circular'] == True);
\* a comparison with a missing length is False
IsLargeCircular(length, is_circular) ==
    /\ length # NaN
    /\ length > LargeThreshold
    /\ is_circular = TRUE

\* ClassifyRow that writes the filled Completeness and Contamination back
ClassifyRowInPlace(r) ==
    LET completeness  == fillna(r.Completeness, 0)
        contamination == fillna(r.Contamination, 100)
    IN  [c \in HeaderColumns |-> r[c]] @@
        [Completeness      |-> completeness,
         Contamination     |-> contamination,
         quality_category  |-> QualityCategory(completeness, contamination),
         is_large_circular |-> IsLargeCircular(r.length, r.is_circular),
         Phylum            |-> fillnaStr(r.Phylum, Unknown)]

\* lines 63-81 on one row: the two derived columns are added and Phylum is
\* overwritten; Completeness and Contamination are filled on copies only
ClassifyRow(r) ==
    LET completeness  == fillna(r.Completeness, 0)
        contamination == fillna(r.Contamination, 100)
    IN  [c \in DOMAIN r \ {"Phylum"} |-> r[c]] @@
        [quality_category  |-> QualityCategory(completeness, contamination),
         is_large_circular |-> IsLargeCircular(r.length, r.is_circular),
         Phylum            |-> fillnaStr(r.Phylum, Unknown)]

Classify(df) == [i \in 1..Len(df) |-> ClassifyRow(df[i])]

-----------------------------------------------------------------------------
(* Inputs: file contents drawn from sample lines and rows *)

MaxRecords == 3

\* producer-A header lines read by compile_data
\*   >a_len-600000_circular-yes_depth-2.5
\*   >a_len-500000_circular-possible_depth-10
\*   >b_len-500001_circular-no_depth-3
\*   >b_len-9
\*   >b_len-9_circular-yes_depth-.
MyloLines ==
    {<<">","a","_","l","e","n","-","6","0","0","0","0","0","_","c","i","r","c","u","l","a","r","-","y","e","s","_","d","e","p","t","h","-","2",".","5">>,
     <<">","a","_","l","e","n","-","5","0","0","0","0","0","_","c","i","r","c","u","l","a","r","-","p","o","s","s","i","b","l","e","_","d","e","p","t","h","-","1","0">>,
     <<">","b","_","l","e","n","-","5","0","0","0","0","1","_","c","i","r","c","u","l","a","r","-","n","o","_","d","e","p","t","h","-","3">>,
     <<">","b","_","l","e","n","-","9">>,
     <<">","b","_","l","e","n","-","9","_","c","i","r","c","u","l","a","r","-","y","e","s","_","d","e","p","t","h","-",".">>}

\* further producer-A lines, for the extractor alone
\*   >a_len-5_circular-Yes_depth-1
\*   >a_b_len-5_circular-yes_depth-1.5 
\*   >a_len-5_circular-yes_x_depth-1
\*   >a_len-x_len-5_circular-possible_depth-2
\*   >a_len-5_circular-yes_depth-x
\*   a_len-5_circular-yes_depth-1
MyloMoreLines ==
    {<<">","a","_","l","e","n","-","5","_","c","i","r","c","u","l","a","r","-","Y","e","s","_","d","e","p","t","h","-","1">>,
     <<">","a","_","b","_","l","e","n","-","5","_","c","i","r","c","u","l","a","r","-","y","e","s","_","d","e","p","t","h","-","1",".","5"," ">>,
     <<">","a","_","l","e","n","-","5","_","c","i","r","c","u","l","a","r","-","y","e","s","_","x","_","d","e","p","t","h","-","1">>,
     <<">","a","_","l","e","n","-","x","_","l","e","n","-","5","_","c","i","r","c","u","l","a","r","-","p","o","s","s","i","b","l","e","_","d","e","p","t","h","-","2">>,
     <<">","a","_","l","e","n","-","5","_","c","i","r","c","u","l","a","r","-","y","e","s","_","d","e","p","t","h","-","x">>,
     <<"a","_","l","e","n","-","5","_","c","i","r","c","u","l","a","r","-","y","e","s","_","d","e","p","t","h","-","1">>}

\* producer-B header lines read by compile_data
\*   >a length=600000 coverage=3.5 circular=YES
\*   >c length=500001 circular=possible
\*   >b coverage=7 circular=yes
\*   >c coverage=1.2.3
MetaLines ==
    {<<">","a"," ","l","e","n","g","t","h","=","6","0","0","0","0","0"," ","c","o","v","e","r","a","g","e","=","3",".","5"," ","c","i","r","c","u","l","a","r","=","Y","E","S">>,
     <<">","c"," ","l","e","n","g","t","h","=","5","0","0","0","0","1"," ","c","i","r","c","u","l","a","r","=","p","o","s","s","i","b","l","e">>,
     <<">","b"," ","c","o","v","e","r","a","g","e","=","7"," ","c","i","r","c","u","l","a","r","=","y","e","s">>,
     <<">","c"," ","c","o","v","e","r","a","g","e","=","1",".","2",".","3">>}

\* further producer-B lines, for the extractor alone
\*   >a circular:Yes length_12
\*   >a circular=yes_length=5
\*   > a length=5
\*   >a circular=no circular=yes
\*   ACGT
MetaMoreLines ==
    {<<">","a"," ","c","i","r","c","u","l","a","r",":","Y","e","s"," ","l","e","n","g","t","h","_","1","2">>,
     <<">","a"," ","c","i","r","c","u","l","a","r","=","y","e","s","_","l","e","n","g","t","h","=","5">>,
     <<">"," ","a"," ","l","e","n","g","t","h","=","5">>,
     <<">","a"," ","c","i","r","c","u","l","a","r","=","n","o"," ","c","i","r","c","u","l","a","r","=","y","e","s">>,
     <<"A","C","G","T">>}

\* rows of a quality report (percentages)
QualityRows ==
    {[Name |-> <<"a">>, Completeness |-> 95, Contamination |-> 2],
     [Name |-> <<"a">>, Completeness |-> 90, Contamination |-> 4],
     [Name |-> <<"a">>, Completeness |-> 91, Contamination |-> 5],
     [Name |-> <<"b">>, Completeness |-> 51, Contamination |-> 9],
     [Name |-> <<"b">>, Completeness |-> 50, Contamination |-> 9],
     [Name |-> <<"c">>, Completeness |-> 51, Contamination |-> 10],
     [Name |-> <<"b">>, Completeness |-> 95, Contamination |-> NaN]}

\* rows of a taxonomy report read by compile_data:
\*   a  d__B;p__P;c__X
\*   a  d__A;p__Q
\*   b  d__B;p__Unclassified
TaxonomyRows ==
    {[user_genome |-> <<"a">>,
      classification |-> <<"d","_","_","B",";","p","_","_","P",";","c","_","_","X">>],
     [user_genome |-> <<"a">>,
      classification |-> <<"d","_","_","A",";","p","_","_","Q">>],
     [user_genome |-> <<"b">>,
      classification |-> <<"d","_","_","B",";","p","_","_","U","n","c","l","a","s","s","i","f","i","e","d">>]}

\* further taxonomy rows, for the loader alone:
\*   c  p__A;Unclassified
\*   b  Unclassified Bacteria
\*   a  p__;p__R
\*   b  d__B;p__;c__X
\*   c  p__xUnclassifiedy;z
\*   c  p__unclassified
\*   a  d__B;p__
TaxonomyMoreRows ==
    {[user_genome |-> <<"c">>,
      classification |-> <<"p","_","_","A",";","U","n","c","l","a","s","s","i","f","i","e","d">>],
     [user_genome |-> <<"b">>,
      classification |-> <<"U","n","c","l","a","s","s","i","f","i","e","d"," ","B","a","c","t","e","r","i","a">>],
     [user_genome |-> <<"a">>,
      classification |-> <<"p","_","_",";","p","_","_","R">>],
     [user_genome |-> <<"b">>,
      classification |-> <<"d","_","_","B",";","p","_","_",";","c","_","_","X">>],
     [user_genome |-> <<"c">>,
      classification |-> <<"p","_","_","x","U","n","c","l","a","s","s","i","f","i","e","d","y",";","z">>],
     [user_genome |-> <<"c">>,
      classification |-> <<"p","_","_","u","n","c","l","a","s","s","i","f","i","e","d">>],
     [user_genome |-> <<"a">>,
      classification |-> <<"d","_","_","B",";","p","_","_">>]}

\* the sequences of length n over S
Tuples(S, n) == [1..n -> S]

Keys == {"headers_mylo", "headers_meta", "checkm2_mylo", "checkm2_meta",
         "gtdb_mylo_ar", "gtdb_mylo_bac", "gtdb_meta_ar", "gtdb_meta_bac"}

Total(l) ==
    l.headers_mylo + l.headers_meta + l.checkm2_mylo + l.checkm2_meta
    + l.gtdb_mylo_ar + l.gtdb_mylo_bac + l.gtdb_meta_ar + l.gtdb_meta_bac

\* file sizes whose total is within the bound; only the files in used are
\* non-empty
Sizes(used) ==
    {l \in [Keys -> 0..MaxRecords] :
        /\ Total(l) <= MaxRecords
        /\ \A k \in Keys \ used : l[k] = 0}

\* the file sets of the given sizes
Files(l, mylo, meta, quality, taxonomy) ==
    [headers_mylo  : Tuples(mylo, l.headers_mylo),
     headers_meta  : Tuples(meta, l.headers_meta),
     checkm2_mylo  : Tuples(quality, l.checkm2_mylo),
     checkm2_meta  : Tuples(quality, l.checkm2_meta),
     gtdb_mylo_ar  : Tuples(taxonomy, l.gtdb_mylo_ar),
     gtdb_mylo_bac : Tuples(taxonomy, l.gtdb_mylo_bac),
     gtdb_meta_ar  : Tuples(taxonomy, l.gtdb_meta_ar),
     gtdb_meta_bac : Tuples(taxonomy, l.gtdb_meta_bac)]

NoTables ==
    /\ df_mylo = << >>
    /\ df_meta = << >>
    /\ df_main = << >>
    /\ df_checkm = << >>
    /\ df_gtdb = << >>
    /\ df_merged = << >>

-----------------------------------------------------------------------------
(* compile_data, one step per stage *)

Init ==
    /\ \E l \in Sizes(Keys) :
           paths \in Files(l, MyloLines, MetaLines, QualityRows, TaxonomyRows)
    /\ pc = "headers"
    /\ NoTables

\* lines 35-39; a ValueError of either extractor ends the run
LoadHeaders ==
    /\ pc = "headers"
    /\ IF MyloRaises(paths.headers_mylo) \/ MetaRaises(paths.headers_meta)
       THEN /\ pc' = "raised"
            /\ UNCHANGED <<df_mylo, df_meta, df_main>>
       ELSE /\ df_mylo' = parse_myloasm_headers(paths.headers_mylo)
            /\ df_meta' = parse_metamdbg_headers(paths.headers_meta)
            /\ df_main' = concat(df_mylo', df_meta')
            /\ pc' = "checkm2"
    /\ UNCHANGED <<paths, df_checkm, df_gtdb, df_merged>>

\* lines 43-47
LoadCheckm2 ==
    /\ pc = "checkm2"
    /\ df_checkm' = concat(parse_checkm2(paths.checkm2_mylo),
                           parse_checkm2(paths.checkm2_meta))
    /\ pc' = "gtdbtk"
    /\ UNCHANGED <<paths, df_mylo, df_meta, df_main, df_gtdb, df_merged>>

\* lines 51-55; the archaeal report is passed as file_bac
LoadGtdbtk ==
    /\ pc = "gtdbtk"
    /\ df_gtdb' = concat(parse_gtdbtk(paths.gtdb_mylo_ar, paths.gtdb_mylo_bac),
                         parse_gtdbtk(paths.gtdb_meta_ar, paths.gtdb_meta_bac))
    /\ pc' = "merge"
    /\ UNCHANGED <<paths, df_mylo, df_meta, df_main, df_checkm, df_merged>>

\* lines 59-60
Merge ==
    /\ pc = "merge"
    /\ df_merged' = merge(merge(df_main, df_checkm, MissingQuality),
                          df_gtdb, MissingTaxonomy)
    /\ pc' = "classify"
    /\ UNCHANGED <<paths, df_mylo, df_meta, df_main, df_checkm, df_gtdb>>

\* lines 63-83
ClassifyStep ==
    /\ pc = "classify"
    /\ df_merged' = Classify(df_merged)
    /\ pc' = "done"
    /\ UNCHANGED <<paths, df_mylo, df_meta, df_main, df_checkm, df_gtdb>>

Next == LoadHeaders \/ LoadCheckm2 \/ LoadGtdbtk \/ Merge \/ ClassifyStep

Spec == Init /\ [][Next]_vars

-----------------------------------------------------------------------------
(* The two header extractors on their own *)

InitHeaders ==
    /\ \E l \in Sizes({"headers_mylo", "headers_meta"}) :
           paths \in Files(l, MyloLines \cup MyloMoreLines,
                           MetaLines \cup MetaMoreLines, {}, {})
    /\ pc = "call_mylo"
    /\ NoTables

CallMylo ==
    /\ pc = "call_mylo"
    /\ IF MyloRaises(paths.headers_mylo)
       THEN pc' = "mylo_raised" /\ UNCHANGED df_mylo
       ELSE /\ df_mylo' = parse_myloasm_headers(paths.headers_mylo)
            /\ pc' = "call_meta"
    /\ UNCHANGED <<paths, df_meta, df_main, df_checkm, df_gtdb, df_merged>>

CallMeta ==
    /\ pc = "call_meta"
    /\ IF MetaRaises(paths.headers_meta)
       THEN pc' = "meta_raised" /\ UNCHANGED df_meta
       ELSE /\ df_meta' = parse_metamdbg_headers(paths.headers_meta)
            /\ pc' = "returned"
    /\ UNCHANGED <<paths, df_mylo, df_main, df_checkm, df_gtdb, df_merged>>

NextHeaders == CallMylo \/ CallMeta

SpecHeaders == InitHeaders /\ [][NextHeaders]_vars

-----------------------------------------------------------------------------
(* The taxonomy loader on its own *)

InitGtdbtk ==
    /\ \E l \in Sizes({"gtdb_mylo_ar", "gtdb_mylo_bac"}) :
           paths \in Files(l, {}, {}, {}, TaxonomyRows \cup TaxonomyMoreRows)
    /\ pc = "call_gtdbtk"
    /\ NoTables

CallGtdbtk ==
    /\ pc = "call_gtdbtk"
    /\ df_gtdb' = parse_gtdbtk(paths.gtdb_mylo_bac, paths.gtdb_mylo_ar)
    /\ pc' = "returned"
    /\ UNCHANGED <<paths, df_mylo, df_meta, df_main, df_checkm, df_merged>>

NextGtdbtk == CallGtdbtk

SpecGtdbtk == InitGtdbtk /\ [][NextGtdbtk]_vars

-----------------------------------------------------------------------------
(* Properties of compile_data (Spec) *)

HeaderPart(r) == [c \in HeaderColumns |-> r[c]]

Returned == pc = "done"

\* number of rows of the quality / taxonomy aggregate with the given key
NQ(key) == Cardinality({k \in DOMAIN df_checkm : df_checkm[k].contig_id = key})

NT(key) == Cardinality({k \in DOMAIN df_gtdb : df_gtdb[k].contig_id = key})

NH(key) == Cardinality({k \in DOMAIN df_main : df_main[k].contig_id = key})

\* C1: every row returned by parse_myloasm_headers or parse_metamdbg_headers
\* appears at least once in the table compile_data returns, whether or not
\* the quality or taxonomy aggregate has a row with its contig_id.
C1_HeaderRowsSurvive ==
    Returned =>
        /\ \A i \in DOMAIN df_mylo : \E j \in DOMAIN df_merged :
               HeaderPart(df_merged[j]) = df_mylo[i]
        /\ \A i \in DOMAIN df_meta : \E j \in DOMAIN df_merged :
               HeaderPart(df_merged[j]) = df_meta[i]

\* a returned table in which one header row has no quality and no taxonomy
\* row while another key has both
C1_Witness ==
    /\ Returned
    /\ \E i \in DOMAIN df_main :
           NQ(df_main[i].contig_id) = 0 /\ NT(df_main[i].contig_id) = 0
    /\ Len(df_checkm) > 0
    /\ Len(df_gtdb) > 0

\* C2: in every returned row, with c = Completeness (0 when missing) and
\* k = Contamination (100 when missing), quality_category is High if c > 90
\* and k < 5, otherwise Medium if c > 50 and k < 10, otherwise Low.
C2_QualityCategory ==
    Returned =>
        \A j \in DOMAIN df_merged :
            LET r == df_merged[j]
                c == IF r.Completeness = NaN THEN 0 ELSE r.Completeness
                k == IF r.Contamination = NaN THEN 100 ELSE r.Contamination
                high   == c > 90 /\ k < 5
                medium == c > 50 /\ k < 10
            IN  /\ r.quality_category \in {"High", "Medium", "Low"}
                /\ high => r.quality_category = "High"
                /\ (~high /\ medium) => r.quality_category = "Medium"
                /\ (~high /\ ~medium) => r.quality_category = "Low"

\* a returned table with a High row (it satisfies the Medium predicate too),
\* and a Low row without quality data
C2_Witness ==
    /\ Returned
    /\ \E j \in DOMAIN df_merged :
           /\ df_merged[j].quality_category = "High"
           /\ df_merged[j].Completeness > 50
           /\ df_merged[j].Contamination < 10
    /\ \E j \in DOMAIN df_merged :
           /\ df_merged[j].quality_category = "Low"
           /\ df_merged[j].Completeness = NaN
           /\ df_merged[j].Contamination = NaN

\* C3: in every returned row, is_large_circular is true iff length > 500000
\* and is_circular is true; false at exactly 500000 and for a missing length.
C3_LargeCircular ==
    Returned =>
        \A j \in DOMAIN df_merged :
            LET r == df_merged[j]
            IN  r.is_large_circular =
                    (r.length # NaN /\ r.length >= 500001 /\ r.is_circular)

\* a returned table with a circular row of length exactly 500000 (not large)
\* and a circular row without length (not large)
C3_Witness ==
    /\ Returned
    /\ \E j \in DOMAIN df_merged :
           /\ df_merged[j].length = 500000
           /\ df_merged[j].is_circular
           /\ ~df_merged[j].is_large_circular
    /\ \E j \in DOMAIN df_merged :
           /\ df_merged[j].length = NaN
           /\ df_merged[j].is_circular

\* every row of the taxonomy reports read by compile_data
TaxonomyInput ==
    paths.gtdb_mylo_ar \o paths.gtdb_mylo_bac \o
    paths.gtdb_meta_ar \o paths.gtdb_meta_bac

\* C4: in every returned row Phylum is not missing and does not contain
\* "Unclassified"; it is "Unknown" when the taxonomy aggregate has no row
\* with the contig_id, and otherwise it is text that follows a "p__" marker
\* in a classification string reported for that contig_id.
C4_Phylum ==
    Returned =>
        \A j \in DOMAIN df_merged :
            LET r == df_merged[j]
            IN  /\ r.Phylum # NaNStr
                /\ ~contains(r.Phylum, Unclassified)
                /\ NT(r.contig_id) = 0 => r.Phylum = Unknown
                /\ NT(r.contig_id) > 0 =>
                       \E k \in DOMAIN TaxonomyInput :
                           /\ TaxonomyInput[k].user_genome = r.contig_id
                           /\ contains(TaxonomyInput[k].classification,
                                       Tag_p \o r.Phylum)

\* a returned row that is Unknown although a report has a row for its contig
\* (classified as Unclassified)
C4_Witness ==
    /\ Returned
    /\ \E j \in DOMAIN df_merged :
           /\ df_merged[j].Phylum = Unknown
           /\ \E k \in DOMAIN TaxonomyInput :
                  /\ TaxonomyInput[k].user_genome = df_merged[j].contig_id
                  /\ contains(TaxonomyInput[k].classification, Unclassified)

Fan(key) ==
    (IF NQ(key) = 0 THEN 1 ELSE NQ(key)) * (IF NT(key) = 0 THEN 1 ELSE NT(key))

RECURSIVE SumFan(_)
SumFan(df) ==
    IF Len(df) = 0 THEN 0 ELSE Fan(Head(df).contig_id) + SumFan(Tail(df))

\* how often the quality (taxonomy) part of merged row r is provided by the
\* quality (taxonomy) aggregate: once, as missing, when the key has no match
QMult(r) ==
    IF NQ(r.contig_id) = 0
    THEN IF r.Completeness = NaN /\ r.Contamination = NaN THEN 1 ELSE 0
    ELSE Cardinality({k \in DOMAIN df_checkm :
             df_checkm[k] = [contig_id     |-> r.contig_id,
                             Completeness  |-> r.Completeness,
                             Contamination |-> r.Contamination]})

TMult(r) ==
    IF NT(r.contig_id) = 0
    THEN IF r.Phylum = NaNStr THEN 1 ELSE 0
    ELSE Cardinality({k \in DOMAIN df_gtdb :
             df_gtdb[k] = [contig_id |-> r.contig_id, Phylum |-> r.Phylum]})

Merged == pc = "classify"

\* C6: the merge yields, for a header row, one row per matching quality row
\* (one row with Completeness and Contamination missing when there is none)
\* times one row per matching taxonomy row (one row with Phylum missing when
\* there is none), without deduplication.
C6_FanOut ==
    Merged =>
        /\ Len(df_merged) = SumFan(df_main)
        /\ \A j \in DOMAIN df_merged :
               LET r == df_merged[j]
               IN  Cardinality({k \in DOMAIN df_merged : df_merged[k] = r})
                   = Cardinality({i \in DOMAIN df_main :
                                      df_main[i] = HeaderPart(r)})
                     * QMult(r) * TMult(r)

\* one header row, no quality row, and a kept taxonomy row for its key in
\* each of the two domain reports of a producer: two merged rows
C6_Witness ==
    /\ Merged
    /\ \E i \in DOMAIN df_main :
           LET key == df_main[i].contig_id
           IN  /\ NH(key) = 1
               /\ NQ(key) = 0
               /\ NT(key) = 2
               /\ \E a \in DOMAIN paths.gtdb_mylo_ar :
                      paths.gtdb_mylo_ar[a].user_genome = key
               /\ \E b \in DOMAIN paths.gtdb_mylo_bac :
                      paths.gtdb_mylo_bac[b].user_genome = key
               /\ Cardinality({j \in DOMAIN df_merged :
                                   df_merged[j].contig_id = key}) = 2

\* C9: no two rows of the returned table have the same contig_id.
C9_UniqueKey ==
    Returned =>
        \A i, j \in DOMAIN df_merged :
            i # j => df_merged[i].contig_id # df_merged[j].contig_id

\* C9 as amended: two returned rows have the same contig_id only if that
\* contig_id occurs in more than one row of the headers, quality or taxonomy
\* aggregate.
C9_UniqueKeyAmended ==
    Returned =>
        \A i, j \in DOMAIN df_merged :
            (i # j /\ df_merged[i].contig_id = df_merged[j].contig_id) =>
                LET key == df_merged[i].contig_id
                IN  NH(key) > 1 \/ NQ(key) > 1 \/ NT(key) > 1

\* a returned table of several rows, all keys different, one of them with a
\* quality row and a taxonomy row
C9_Witness ==
    /\ Returned
    /\ Len(df_merged) > 1
    /\ \A i, j \in DOMAIN df_merged :
           i # j => df_merged[i].contig_id # df_merged[j].contig_id
    /\ \E i \in DOMAIN df_merged :
           NQ(df_merged[i].contig_id) + NT(df_merged[i].contig_id) > 0

-----------------------------------------------------------------------------
(* Properties of the header extractors (SpecHeaders) *)

\* the line has the shape >id_len-digits_circular-word_depth-number, stated
\* without the order in which the pattern is searched
Shape(s) ==
    /\ Len(s) >= 1
    /\ s[1] = ">"
    /\ \E p \in 2..Len(s) :
           /\ LitAt(s, p + 1, Tag_len)
           /\ \E b \in (p + 6)..Len(s) :
                  /\ \A k \in (p + 6)..b : s[k] \in Digit
                  /\ LitAt(s, b + 1, Tag_circular)
                  /\ \E e \in (b + 11)..Len(s) :
                         /\ \A k \in (b + 11)..e : s[k] \in Word
                         /\ LitAt(s, e + 1, Tag_depth)
                         /\ e + 8 <= Len(s)
                         /\ s[e + 8] \in DigitDot

\* positions of the record-start lines of a file
Starts(f) == {k \in DOMAIN f : Len(f[k]) >= 1 /\ f[k][1] = ">"}

\* the row of the k-th line of the file
RowOf(f, k) == Cardinality({j \in Starts(f) : j <= k})

MyloReturned == pc \in {"call_meta", "returned", "meta_raised"}

\* C7: parse_myloasm_headers emits one row per record-start line, in order;
\* the row of a line that does not have the shape has contig_id, length and
\* coverage missing, the rows of the other lines have them extracted; and
\* when the extractor raises, a line that has the shape is the cause.
C7_MalformedLine ==
    LET f == paths.headers_mylo
    IN  /\ MyloReturned =>
               /\ Len(df_mylo) = Cardinality(Starts(f))
               /\ \A k \in Starts(f) :
                      LET row == df_mylo[RowOf(f, k)]
                      IN  IF Shape(f[k])
                          THEN /\ row.contig_id # NaNStr
                               /\ row.length # NaN
                               /\ row.coverage # NaN
                          ELSE /\ row.contig_id = NaNStr
                               /\ row.length = NaN
                               /\ row.coverage = NaN
        /\ pc = "mylo_raised" => \E k \in Starts(f) : Shape(f[k])

\* a returned table with the all-missing row of a malformed line next to the
\* extracted row of a well-formed line
C7_Witness ==
    /\ MyloReturned
    /\ \E k, j \in Starts(paths.headers_mylo) :
           /\ ~Shape(paths.headers_mylo[k])
           /\ Shape(paths.headers_mylo[j])
           /\ df_mylo[RowOf(paths.headers_mylo, k)].contig_id = NaNStr
           /\ df_mylo[RowOf(paths.headers_mylo, j)].contig_id # NaNStr

\* the circularity text of a producer-A / producer-B record-start line
CircularTextMylo(s) == ExtractMylo(strip(s)).circular

CircularTextMeta(s) == ExtractTagged(strip(s), Tag_circ, Word)

\* C8: is_circular of a producer-A row is true exactly when the circularity
\* text is "yes" or "possible" in that case; is_circular of a producer-B row
\* is true exactly when the text is "yes" in any case, and false when the
\* tag is absent.
C8_IsCircular ==
    /\ MyloReturned =>
           \A k \in Starts(paths.headers_mylo) :
               df_mylo[RowOf(paths.headers_mylo, k)].is_circular
               = \/ CircularTextMylo(paths.headers_mylo[k]) = <<"y","e","s">>
                 \/ CircularTextMylo(paths.headers_mylo[k])
                        = <<"p","o","s","s","i","b","l","e">>
    /\ pc = "returned" =>
           \A k \in Starts(paths.headers_meta) :
               LET t == CircularTextMeta(paths.headers_meta[k])
               IN  df_meta[RowOf(paths.headers_meta, k)].is_circular
                   = /\ t # NaNStr
                     /\ Len(t) = 3
                     /\ t[1] \in {"y", "Y"}
                     /\ t[2] \in {"e", "E"}
                     /\ t[3] \in {"s", "S"}

\* both extractors returned: a producer-A row that is circular by
\* "possible", a producer-B row that is circular by "YES" and a producer-B
\* row that is not circular by "possible"
C8_Witness ==
    /\ pc = "returned"
    /\ \E k \in Starts(paths.headers_mylo) :
           /\ CircularTextMylo(paths.headers_mylo[k]) = possible
           /\ df_mylo[RowOf(paths.headers_mylo, k)].is_circular
    /\ \E k \in Starts(paths.headers_meta) :
           /\ CircularTextMeta(paths.headers_meta[k]) = <<"Y","E","S">>
           /\ df_meta[RowOf(paths.headers_meta, k)].is_circular
    /\ \E k \in Starts(paths.headers_meta) :
           /\ CircularTextMeta(paths.headers_meta[k]) = possible
           /\ ~df_meta[RowOf(paths.headers_meta, k)].is_circular

-----------------------------------------------------------------------------
(* Properties of the taxonomy loader (SpecGtdbtk) *)

\* position i starts a "p__" marker followed by a character other than ";"
MarkerAt(c, i) ==
    /\ LitAt(c, i, Tag_p)
    /\ i + 3 <= Len(c)
    /\ c[i + 3] # ";"

\* x is the phylum of classification string c: the text after the first
\* such marker, up to the next ";" or the end
IsPhylumOf(x, c) ==
    \E i \in 1..Len(c) :
        /\ MarkerAt(c, i)
        /\ \A h \in 1..(i - 1) : ~MarkerAt(c, h)
        /\ Len(x) >= 1
        /\ LitAt(c, i + 3, x)
        /\ \A k \in 1..Len(x) : x[k] # ";"
        /\ (i + 3 + Len(x) > Len(c) \/ c[i + 3 + Len(x)] = ";")

\* the concatenation of the two reports parse_gtdbtk reads
GtdbtkInput == paths.gtdb_mylo_bac \o paths.gtdb_mylo_ar

\* "Unclassified" occurs in c at u, before the first ";" after position i
UnclassifiedIn(c, i, u) ==
    /\ LitAt(c, u, Unclassified)
    /\ \A v \in i..(u + Len(Unclassified) - 1) : c[v] # ";"

\* positions of the input rows parse_gtdbtk is to keep: the classification
\* has a phylum, and "Unclassified" is not part of it
Kept ==
    {k \in DOMAIN GtdbtkInput :
        LET c == GtdbtkInput[k].classification
        IN  \E i \in 1..Len(c) :
                /\ MarkerAt(c, i)
                /\ \A h \in 1..(i - 1) : ~MarkerAt(c, h)
                /\ \A u \in (i + 3)..Len(c) : ~UnclassifiedIn(c, i + 3, u)}

\* C5: parse_gtdbtk returns exactly the rows of the two reports, in order,
\* whose classification has a "p__" marker followed by a character other
\* than ";" and whose phylum does not contain "Unclassified", each with its
\* contig_id and phylum; every other row is absent.
C5_TaxonomyFilter ==
    pc = "returned" =>
        /\ Len(df_gtdb) = Cardinality(Kept)
        /\ \A k \in Kept :
               LET row == df_gtdb[Cardinality({j \in Kept : j <= k})]
               IN  /\ row.contig_id = GtdbtkInput[k].user_genome
                   /\ IsPhylumOf(row.Phylum, GtdbtkInput[k].classification)

\* a return from reports with a row without marker, a row whose phylum
\* contains "Unclassified" and a kept row
C5_Witness ==
    /\ pc = "returned"
    /\ Len(df_gtdb) >= 1
    /\ \E k \in DOMAIN GtdbtkInput \ Kept :
           ~contains(GtdbtkInput[k].classification, Tag_p)
    /\ \E k \in DOMAIN GtdbtkInput \ Kept :
           /\ contains(GtdbtkInput[k].classification, Tag_p)
           /\ contains(GtdbtkInput[k].classification, Unclassified)

====
